---- MODULE Spec2Model ----
(***************************************************************************)
(* The value pipeline system of vivarium (vivarium/framework/values.py):   *)
(* Pipeline objects, the three combiners, the ValuesManager registry with  *)
(* its registration operations and post-setup dependency declaration, and  *)
(* the lifecycle phases that gate them; beside it the results interface    *)
(* (results/manager.py) and the state machine scaffold                     *)
(* (state_machine2.py), each with a specification of its own.              *)
(*                                                                         *)
(* Python values are modelled structurally.  A callable handed to the      *)
(* manager is either a plain function (known by its name), a Pipeline      *)
(* object (known by its identity in the heap) or None.  What a plain       *)
(* function returns is a symbolic term that records the function and the   *)
(* positional arguments it received, so that two results are equal exactly *)
(* when the same function was applied to the same arguments.  Keyword      *)
(* arguments are passed through unchanged by every function of the module  *)
(* and are folded into the positional arguments.                           *)
(***************************************************************************)
EXTENDS Integers, Sequences, FiniteSets, TLC

VARIABLES
    phase,              \* the lifecycle phase of the simulation
    managerConstraints, \* the lifecycle constraints on the manager's methods
    pipelines,          \* ValuesManager._pipelines: name -> Pipeline object (0: no entry)
    heap,               \* the Pipeline objects, in the order they were created
    handles,            \* <<name, object, configured then>>: the pipelines the manager returned
    constrained,        \* the Pipeline objects whose _call carries the lifecycle constraint
    resources,          \* what was added to the initialization resource group
    postSetupDone,      \* on_post_setup has run
    nProducers,         \* name -> number of register_value_producer calls that returned
    store,              \* the elements of the list object s_shared returns
    last,               \* the last operation and its outcome
    probe,              \* a helper function under examination: its arguments and its result
    machine,            \* the state machine: Machine._states and the last initialization
    results             \* the results system: what was declared, produced and stored

vars == <<phase, managerConstraints, pipelines, heap, handles, constrained,
          resources, postSetupDone, nProducers, store, last, probe, machine, results>>

\* the variables the values manager and its pipelines never touch
aside == <<probe, machine, results>>

-----------------------------------------------------------------------------
(* Bounds of the model *)

\* mutators of a pipeline object whose call is examined on its own
MaxMutators == 2
\* successful register_value_producer / register_value_modifier calls of one run
MaxRegs == 3
\* nesting depth of pipeline calls (a pipeline used as source or modifier)
MaxDepth == 2
\* length the list object shared by all calls of s_shared may have before a call
MaxShared == 1
\* entries of a requires_columns, requires_values or requires_streams argument
MaxRequires == 2
\* marginal probabilities in the list joint_value_post_processor is given
MaxJoint == 3
\* events of the simulation at which results are due
MaxEvents == 2
\* states added to the machine
MaxStates == 4

Names == {"p", "q"}

-----------------------------------------------------------------------------
(* Python values *)

NoVal == [kind |-> "none", fn |-> "", pos |-> <<>>, elems |-> <<>>, members |-> {}, ref |-> 0]

\* the object a plain function returned when called with the positional arguments pos
Obj(f, pos) == [kind |-> "obj", fn |-> f, pos |-> pos, elems |-> <<>>, members |-> {}, ref |-> 0]

\* a list object; ref = 1 is the one list object that s_shared returns on every call
ListVal(elems, ref) == [kind |-> "list", fn |-> "", pos |-> <<>>, elems |-> elems, members |-> {}, ref |-> ref]

SetVal(members) == [kind |-> "set", fn |-> "", pos |-> <<>>, elems |-> <<>>, members |-> members, ref |-> 0]

\* argument tuples a pipeline is called with (one positional argument, an index)
Arg1 == <<Obj("idx1", <<>>)>>
Arg2 == <<Obj("idx2", <<>>)>>
Args == {Arg1, Arg2}

-----------------------------------------------------------------------------
(* Callables *)

NoneC == [k |-> "none", fn |-> "", obj |-> 0]
Fn(f) == [k |-> "fn", fn |-> f, obj |-> 0]
Pipe(o) == [k |-> "pipe", fn |-> "", obj |-> o]

\* result of running a piece of code: the exception raised ("" when none), the
\* value returned, the functions invoked (with their arguments) and the shared list
\* (by: the pipeline object whose _call raised the exception, 0 when none did)
Result(exc, value, log, st) == [exc |-> exc, value |-> value, log |-> log, store |-> st, by |-> 0]

Raise(exc, log, st) == Result(exc, NoVal, log, st)

RaiseBy(exc, o, st) == [exc |-> exc, value |-> NoVal, log |-> <<>>, store |-> st, by |-> o]

\* a source such as Metrics' "lambda index: {}" builds a new object on every call;
\* s_list / s_seed / s_set return a new list (empty, or holding a baseline element)
\* or set, s_shared returns one and the same list object on every call
FnCall(f, pos, st) ==
    LET entry == [fn |-> f, pos |-> pos] IN
    CASE f = "s_list"   -> Result("", ListVal(<<>>, 0), <<entry>>, st)
      [] f = "s_seed"   -> Result("", ListVal(<<Obj("seed", <<>>)>>, 0), <<entry>>, st)
      [] f = "s_shared" -> Result("", ListVal(st, 1), <<entry>>, st)
      [] f = "s_set"    -> Result("", SetVal({}), <<entry>>, st)
      [] OTHER          -> Result("", Obj(f, pos), <<entry>>, st)

-----------------------------------------------------------------------------
(* Pipeline objects *)

\* Pipeline.__init__
NewPipeline ==
    [name |-> "None", source |-> NoneC, mutators |-> <<>>, combiner |-> "None",
     post_processor |-> "None", manager |-> FALSE, configured |-> FALSE]

\* a constraint that forgets the post_setup phase
RestrictDuring_without_post_setup == {"initialization", "setup"}

\* the phases in which a call of a constrained pipeline is rejected
RestrictDuring == {"initialization", "setup", "post_setup"}

RECURSIVE InvokeCallable(_, _, _, _, _)
RECURSIVE MutatorLoop(_, _, _, _, _, _)
RECURSIVE Pipeline_call(_, _, _, _, _, _)

\* Lifecycle constraint on pipeline._call: the wrapped method checks the phase first
ConstrainedCall(o, pos, skip, env, st, fuel) ==
    IF o \in env.constrained /\ env.phase \in RestrictDuring
    THEN RaiseBy("LifeCycleError", o, st)
    ELSE Pipeline_call(o, pos, skip, env, st, fuel)

\* Pipeline.__call__ delegates to self._call
Pipeline__call__(o, pos, skip, env, st, fuel) ==
    IF fuel = 0 THEN Raise("RecursionError", <<>>, st)
    ELSE ConstrainedCall(o, pos, skip, env, st, fuel - 1)

InvokeCallable(c, pos, env, st, fuel) ==
    CASE c.k = "fn"   -> FnCall(c.fn, pos, st)
      [] c.k = "pipe" -> Pipeline__call__(c.obj, pos, FALSE, env, st, fuel)
      [] OTHER        -> Raise("TypeError", <<>>, st)

\* a replace_combiner that passes the previous value as the first argument
replace_combiner_value_first(value, mutator, pos, env, st, fuel) ==
    InvokeCallable(mutator, <<value>> \o pos, env, st, fuel)

\* args = list(args) + [value]; return mutator(*args, **kwargs)
replace_combiner(value, mutator, pos, env, st, fuel) ==
    InvokeCallable(mutator, pos \o <<value>>, env, st, fuel)

\* a list_combiner that inserts the mutator's output at the front of the list
list_combiner_prepend(value, mutator, pos, env, st, fuel) ==
    IF value.kind # "list" THEN Raise("AttributeError", <<>>, st)
    ELSE LET r == InvokeCallable(mutator, pos, env, st, fuel) IN
         IF r.exc # "" THEN r
         ELSE LET cur   == IF value.ref = 1 THEN r.store ELSE value.elems
                  elems == <<r.value>> \o cur
              IN Result("", ListVal(elems, value.ref), r.log,
                        IF value.ref = 1 THEN elems ELSE r.store)

\* value.append(mutator(*args, **kwargs)); return value
\* (the attribute value.append is looked up before the mutator is called)
list_combiner(value, mutator, pos, env, st, fuel) ==
    IF value.kind # "list" THEN Raise("AttributeError", <<>>, st)
    ELSE LET r == InvokeCallable(mutator, pos, env, st, fuel) IN
         IF r.exc # "" THEN r
         ELSE LET cur   == IF value.ref = 1 THEN r.store ELSE value.elems
                  elems == Append(cur, r.value)
              IN Result("", ListVal(elems, value.ref), r.log,
                        IF value.ref = 1 THEN elems ELSE r.store)

\* value.add(mutator(*args, **kwargs)); return value
set_combiner(value, mutator, pos, env, st, fuel) ==
    IF value.kind # "set" THEN Raise("AttributeError", <<>>, st)
    ELSE LET r == InvokeCallable(mutator, pos, env, st, fuel) IN
         IF r.exc # "" THEN r
         ELSE Result("", SetVal(value.members \cup {r.value}), r.log, r.store)

Combine(combiner, value, mutator, pos, env, st, fuel) ==
    CASE combiner = "replace_combiner" -> replace_combiner(value, mutator, pos, env, st, fuel)
      [] combiner = "list_combiner"    -> list_combiner(value, mutator, pos, env, st, fuel)
      [] combiner = "set_combiner"     -> set_combiner(value, mutator, pos, env, st, fuel)
      [] OTHER                         -> Raise("TypeError", <<>>, st)

\* for mutator in self.mutators: value = self.combiner(value, mutator, *args, **kwargs)
\* acc is the result so far, i the index of the next mutator
MutatorLoop(p, i, acc, pos, env, fuel) ==
    IF acc.exc # "" \/ i > Len(p.mutators) THEN acc
    ELSE LET r == Combine(p.combiner, acc.value, p.mutators[i], pos, env, acc.store, fuel) IN
         MutatorLoop(p, i + 1, [r EXCEPT !.log = acc.log \o r.log], pos, env, fuel)

\* the post-processor applied whatever skip_post_processor says
PostProcess_ignores_skip(p, skip, acc) ==
    IF acc.exc # "" \/ p.post_processor = "None" THEN acc
    ELSE LET step == Obj("step_size", <<>>) IN
         Result("", Obj(p.post_processor, <<acc.value, step>>),
                acc.log \o << [fn |-> "step_size", pos |-> <<>>],
                              [fn |-> p.post_processor, pos |-> <<acc.value, step>>] >>,
                acc.store)

\* return self.post_processor(value, self.manager.step_size())
PostProcess(p, skip, acc) ==
    IF acc.exc # "" \/ p.post_processor = "None" \/ skip THEN acc
    ELSE LET step == Obj("step_size", <<>>) IN
         Result("", Obj(p.post_processor, <<acc.value, step>>),
                acc.log \o << [fn |-> "step_size", pos |-> <<>>],
                              [fn |-> p.post_processor, pos |-> <<acc.value, step>>] >>,
                acc.store)

\* the returned value as the caller sees it: the shared list object holds what
\* has been appended to it
Deref(r) ==
    IF r.exc = "" /\ r.value.kind = "list" /\ r.value.ref = 1
    THEN [r EXCEPT !.value = ListVal(r.store, 1)]
    ELSE r

\* a _call that checks the source only, not the configured flag
Pipeline_call_source_only(o, pos, skip, env, st, fuel) ==
    LET p == env.heap[o] IN
    IF p.source.k = "none" THEN RaiseBy("DynamicValueError", o, st)
    ELSE LET src == InvokeCallable(p.source, pos, env, st, fuel) IN
         Deref(PostProcess(p, skip, MutatorLoop(p, 1, src, pos, env, fuel)))

\* Pipeline._call
Pipeline_call(o, pos, skip, env, st, fuel) ==
    LET p == env.heap[o] IN
    IF p.source.k = "none" THEN RaiseBy("DynamicValueError", o, st)
    ELSE IF ~p.configured THEN RaiseBy("DynamicValueError", o, st)
    ELSE LET src == InvokeCallable(p.source, pos, env, st, fuel) IN
         Deref(PostProcess(p, skip, MutatorLoop(p, 1, src, pos, env, fuel)))

-----------------------------------------------------------------------------
(* Attributes of the callables, as _get_modifier_name probes them with hasattr *)

\* m1, m2 and the sources are plain functions; "foo.bar" is the bound method bar of
\* a component named foo; "Comp.meth" a bound method of an object without name;
\* "table" a callable object with a name attribute (a lookup table); "anon" a
\* callable object without name; "junk" an object that is not callable
FnAttrs(f) ==
    LET none == [hasName |-> FALSE, name |-> "", hasSelf |-> FALSE, ownerHasName |-> FALSE,
                 ownerName |-> "", ownerClass |-> "", hasDunderName |-> FALSE,
                 dunderName |-> "", hasCall |-> FALSE, class |-> ""]
    IN CASE f = "foo.bar"   -> [none EXCEPT !.hasSelf = TRUE, !.ownerHasName = TRUE, !.ownerName = "foo",
                                            !.ownerClass = "Foo", !.hasDunderName = TRUE,
                                            !.dunderName = "bar", !.hasCall = TRUE, !.class = "method"]
         [] f = "Comp.meth" -> [none EXCEPT !.hasSelf = TRUE, !.ownerClass = "Comp", !.hasDunderName = TRUE,
                                            !.dunderName = "meth", !.hasCall = TRUE, !.class = "method"]
         [] f = "table"     -> [none EXCEPT !.hasName = TRUE, !.name = "table", !.hasCall = TRUE,
                                            !.class = "LookupTable"]
         [] f = "anon"      -> [none EXCEPT !.hasCall = TRUE, !.class = "Anon"]
         [] f = "junk"      -> [none EXCEPT !.class = "Junk"]
         [] OTHER           -> [none EXCEPT !.hasDunderName = TRUE, !.dunderName = f, !.hasCall = TRUE,
                                            !.class = "function"]

\* None: no attribute that _get_modifier_name looks for
NoneAttrs ==
    [hasName |-> FALSE, name |-> "", hasSelf |-> FALSE, ownerHasName |-> FALSE,
     ownerName |-> "", ownerClass |-> "", hasDunderName |-> FALSE,
     dunderName |-> "", hasCall |-> FALSE, class |-> "NoneType"]

\* a Pipeline object: it always has the attribute name (None until a producer
\* is registered, rendered "None") and it is callable
PipelineAttrs(p) ==
    [NoneAttrs EXCEPT !.hasName = TRUE, !.name = p.name, !.hasCall = TRUE, !.class = "Pipeline"]

\* what hasattr and getattr tell about a callable handed to the manager
AttrsOf(modifier, h) ==
    IF modifier.k = "pipe" THEN PipelineAttrs(h[modifier.obj])
    ELSE IF modifier.k = "none" THEN NoneAttrs
    ELSE FnAttrs(modifier.fn)

\* the body of _get_modifier_name with the branches for __self__ and __name__
\* exchanged
ResolveName_function_name_first(a) ==
    IF a.hasName THEN [exc |-> "", name |-> a.name]
    ELSE IF a.hasDunderName THEN [exc |-> "", name |-> a.dunderName]
    ELSE IF a.hasSelf
         THEN [exc |-> "AttributeError", name |-> ""]
    ELSE IF a.hasCall THEN [exc |-> "AttributeError", name |-> ""]
    ELSE [exc |-> "ValueError", name |-> ""]

\* the body of ValuesManager._get_modifier_name on the attributes of the
\* modifier: [exc, name].  The bound-method branch reads modifier.__name__
\* without asking for it first.  The "anonymous callable" branch reads
\* modifier.__class__.name__, an attribute no class has, and so raises
\* AttributeError.
ResolveName(a) ==
    IF a.hasName THEN [exc |-> "", name |-> a.name]
    ELSE IF a.hasSelf
         THEN IF a.hasDunderName
              THEN [exc |-> "", name |-> (IF a.ownerHasName THEN a.ownerName ELSE a.ownerClass)
                                          \o "." \o a.dunderName]
              ELSE [exc |-> "AttributeError", name |-> ""]
    ELSE IF a.hasDunderName THEN [exc |-> "", name |-> a.dunderName]
    ELSE IF a.hasCall THEN [exc |-> "AttributeError", name |-> ""]
    ELSE [exc |-> "ValueError", name |-> ""]

\* ValuesManager._get_modifier_name: [exc, name]
GetModifierName(modifier, h) == ResolveName(AttrsOf(modifier, h))

RECURSIVE Prefixed(_, _)
\* [f'{prefix}.{name}' for name in names]
Prefixed(prefix, names) ==
    IF names = <<>> THEN <<>>
    ELSE <<prefix \o "." \o Head(names)>> \o Prefixed(prefix, Tail(names))

\* _convert_dependencies without the early return for a Pipeline
ConvertDependencies_pipeline_keeps_requires(func, h, requires) ==
    (IF func.k = "pipe" THEN << "value." \o h[func.obj].name >> ELSE <<>>)
      \o Prefixed("column", requires.columns) \o Prefixed("value", requires.values)
      \o Prefixed("stream", requires.streams)

\* ValuesManager._convert_dependencies
ConvertDependencies(func, h, requires) ==
    IF func.k = "pipe" THEN << "value." \o h[func.obj].name >>
    ELSE Prefixed("column", requires.columns) \o Prefixed("value", requires.values)
           \o Prefixed("stream", requires.streams)

-----------------------------------------------------------------------------
(* The ValuesManager *)

\* a setup that leaves register_value_modifier without constraint
SetupConstraints_modifiers_unrestricted ==
    { [method |-> "register_value_producer", allow |-> {"setup"}],
      [method |-> "get_value", allow |-> {"setup", "post_setup", "population_creation",
                                          "simulation_end", "report"}] }

\* builder.lifecycle.add_constraint calls of ValuesManager.setup
SetupConstraints ==
    { [method |-> "register_value_producer", allow |-> {"setup"}],
      [method |-> "register_value_modifier", allow |-> {"setup"}],
      [method |-> "get_value", allow |-> {"setup", "post_setup", "population_creation",
                                          "simulation_end", "report"}] }

\* the lifecycle manager's check on entry of a constrained manager method
Allowed(method, ph, cons) ==
    \A c \in cons : c.method = method => ph \in c.allow

\* a lookup that makes a new Pipeline object for the name on every access
Lookup_always_new(pls, h, name) ==
    [pipelines |-> [pls EXCEPT ![name] = Len(h) + 1],
     heap |-> Append(h, NewPipeline), obj |-> Len(h) + 1]

\* self._pipelines[name] of the defaultdict(Pipeline): a missing key is added with
\* a new Pipeline object
Lookup(pls, h, name) ==
    IF pls[name] # 0 THEN [pipelines |-> pls, heap |-> h, obj |-> pls[name]]
    ELSE [pipelines |-> [pls EXCEPT ![name] = Len(h) + 1],
          heap |-> Append(h, NewPipeline), obj |-> Len(h) + 1]

\* a _register_value_producer that keeps the fields of an already configured pipeline
ConfigurePipeline_first_wins(p, value_name, source, combiner, post) ==
    IF p.configured THEN p
    ELSE [p EXCEPT !.name = value_name, !.source = source, !.combiner = combiner,
                   !.post_processor = post, !.manager = TRUE, !.configured = TRUE]

\* a _register_value_producer that starts the pipeline afresh
ConfigurePipeline_resets_mutators(p, value_name, source, combiner, post) ==
    [p EXCEPT !.name = value_name, !.source = source, !.mutators = <<>>, !.combiner = combiner,
              !.post_processor = post, !.manager = TRUE, !.configured = TRUE]

\* ValuesManager._register_value_producer: the fields it assigns
ConfigurePipeline(p, value_name, source, combiner, post) ==
    [p EXCEPT !.name = value_name, !.source = source, !.combiner = combiner,
              !.post_processor = post, !.manager = TRUE, !.configured = TRUE]

\* the resource group: add_resources(kind, [id], producer, dependencies)
Resource(kind, id, producer, deps) ==
    [kind |-> kind, id |-> id, producer |-> producer, deps |-> deps]

\* name = f'{value_name}.{len(pipeline.mutators)}.{modifier_name}' (after the append)
ModifierResourceId(value_name, mutators, modifier_name) ==
    value_name \o "." \o ToString(Len(mutators)) \o "." \o modifier_name

RECURSIVE ModifierDependencies(_, _, _, _)
\* for i, m in enumerate(pipe.mutators): value_modifier.{name}.{i}.{mutator_name}
\* (k is the position in the sequence, i = k - 1 the index enumerate yields)
ModifierDependencies(name, mutators, k, h) ==
    IF k > Len(mutators) THEN [exc |-> "", deps |-> <<>>]
    ELSE LET mn   == GetModifierName(mutators[k], h)
             rest == ModifierDependencies(name, mutators, k + 1, h)
         IN IF mn.exc # "" THEN [exc |-> mn.exc, deps |-> <<>>]
            ELSE IF rest.exc # "" THEN rest
            ELSE [exc |-> "", deps |-> << "value_modifier." \o name \o "." \o ToString(k - 1)
                                            \o "." \o mn.name >> \o rest.deps]

\* a dependency list that names the source whether the pipeline has one or not
ValueDependencies_always_source(name, pipe, h) ==
    LET mods == ModifierDependencies(name, pipe.mutators, 1, h) IN
    [exc |-> mods.exc, deps |-> << "value_source." \o name >> \o mods.deps]

\* the dependency list on_post_setup builds for one registry entry
ValueDependencies(name, pipe, h) ==
    LET mods == ModifierDependencies(name, pipe.mutators, 1, h) IN
    [exc |-> mods.exc,
     deps |-> (IF pipe.source.k # "none" THEN << "value_source." \o name >> ELSE <<>>) \o mods.deps]

\* the key under which the registry holds the pipeline object o
KeyOf(pls, o) == CHOOSE n \in Names : pls[n] = o

RECURSIVE PostSetupLoop(_, _, _, _)
RECURSIVE PostSetupLoop_reject_unsourced(_, _, _, _)
\* an on_post_setup that raises for a pipeline without source (what its FIXME asks for)
PostSetupLoop_reject_unsourced(pls, h, o, res) ==
    IF o > Len(h) THEN [exc |-> "", resources |-> res]
    ELSE LET name == KeyOf(pls, o)
             d    == ValueDependencies(name, h[o], h)
         IN IF h[o].source.k = "none" THEN [exc |-> "DynamicValueError", resources |-> res]
            ELSE IF d.exc # "" THEN [exc |-> d.exc, resources |-> res]
            ELSE PostSetupLoop_reject_unsourced(pls, h, o + 1,
                                                res \cup {Resource("value", name, Pipe(o), d.deps)})

\* for name, pipe in self._pipelines.items(): ... add_resources('value', [name], ...)
\* (the dict iterates in insertion order, which is the order the objects were made)
PostSetupLoop(pls, h, o, res) ==
    IF o > Len(h) THEN [exc |-> "", resources |-> res]
    ELSE LET name == KeyOf(pls, o)
             d    == ValueDependencies(name, h[o], h)
         IN IF d.exc # "" THEN [exc |-> d.exc, resources |-> res]
            ELSE PostSetupLoop(pls, h, o + 1, res \cup {Resource("value", name, Pipe(o), d.deps)})

-----------------------------------------------------------------------------
(* What the components of a run pass to the manager *)

\* the requires_columns / requires_values / requires_streams a component declares
\* together with a source or modifier
Requires(c) ==
    CASE c.k = "fn" /\ c.fn = "s_val"  -> [columns |-> <<"age">>, values |-> <<>>, streams |-> <<>>]
      [] c.k = "fn" /\ c.fn = "s_seed" -> [columns |-> <<>>, values |-> <<>>, streams |-> <<>>]
      [] c.k = "fn" /\ c.fn = "m1"     -> [columns |-> <<"age", "sex">>, values |-> <<"q">>, streams |-> <<"rand">>]
      [] OTHER                         -> [columns |-> <<"age">>, values |-> <<>>, streams |-> <<"rand">>]

\* the pipelines a component holds and hands on as the source or a modifier of p
HeldObjects == { h[2] : h \in { x \in handles : x[1] = "q" } }

\* the register_value_producer calls the components make: the name, and source,
\* preferred_combiner and preferred_post_processor
ProducerCalls ==
    { <<"p", [source |-> Fn("s_val"), combiner |-> "replace_combiner", post |-> "None"]>>,
      <<"p", [source |-> Fn("s_seed"), combiner |-> "list_combiner",
              post |-> "joint_value_post_processor"]>>,
      <<"q", [source |-> Fn("s_val"), combiner |-> "replace_combiner", post |-> "None"]>> }
    \cup { <<"p", [source |-> Pipe(o), combiner |-> "replace_combiner", post |-> "None"]>> :
             o \in HeldObjects }

\* the register_rate_producer calls the components make: the name and the source
RateProducerCalls == { <<"p", Fn("s_val")>> }

\* the register_value_modifier calls the components make: the name and the modifier
ModifierCalls ==
    { <<"p", Fn("m1")>>, <<"p", Fn("anon")>>, <<"p", Fn("junk")>> }
    \cup { <<"p", Pipe(o)>> : o \in HeldObjects }

NoInput == [source |-> NoneC, combiner |-> "None", post |-> "None"]

\* what the last operation was, what it was given, the shared list before it, and
\* how it ended
Outcome(op, name, o, input, args, skip, r) ==
    [op |-> op, name |-> name, obj |-> o, phase |-> phase, input |-> input, args |-> args,
     skip |-> skip, pre |-> store, exc |-> r.exc, by |-> r.by, value |-> r.value, log |-> r.log]

Ok == Result("", NoVal, <<>>, <<>>)

RECURSIVE Sum(_, _)
Sum(f, S) == IF S = {} THEN 0 ELSE LET x == CHOOSE x \in S : TRUE IN f[x] + Sum(f, S \ {x})

\* successful registrations so far: producers, and modifiers (one per mutator held)
RegsDone == Sum(nProducers, Names) + Sum([o \in DOMAIN heap |-> Len(heap[o].mutators)], DOMAIN heap)

-----------------------------------------------------------------------------
(* The components beside the values manager, before anything happened to them *)

\* no helper function is under examination
NoProbe == [fn |-> "", done |-> FALSE]

\* Machine.__init__ without states: _states is empty, nothing was initialized
NewMachine == [states |-> <<>>, ran |-> FALSE, exc |-> "", weights |-> <<>>]

\* the measures results are declared for
Measures == {"deaths", "births"}

\* a ResultsManager nobody has declared anything to.  The class has no
\* attribute: totals is what it stores per key (nothing), declared and produced
\* record what the components asked for and what their aggregators yield
NewResults ==
    [totals |-> <<>>, declared |-> {}, produced |-> [m \in Measures |-> <<>>], events |-> 0]

AsideIdle ==
    /\ probe = NoProbe
    /\ machine = NewMachine
    /\ results = NewResults

-----------------------------------------------------------------------------
\* the values manager after construction, before the simulation's setup
ValuesIdle ==
    /\ phase = "initialization"
    /\ managerConstraints = {}
    /\ pipelines = [n \in Names |-> 0]
    /\ heap = <<>>
    /\ handles = {}
    /\ constrained = {}
    /\ resources = {}
    /\ postSetupDone = FALSE
    /\ nProducers = [n \in Names |-> 0]
    /\ store = <<>>
    /\ last = Outcome("init", "", 0, NoInput, <<>>, FALSE, Ok)

Init ==
    /\ ValuesIdle
    /\ AsideIdle

\* ValuesManager.setup, run as the simulation enters the setup phase
ManagerSetup ==
    /\ UNCHANGED aside
    /\ phase = "initialization"
    /\ phase' = "setup"
    /\ managerConstraints' = SetupConstraints
    /\ last' = [Outcome("setup", "", 0, NoInput, <<>>, FALSE, Ok) EXCEPT !.phase = "setup"]
    /\ UNCHANGED <<pipelines, heap, handles, constrained, resources, postSetupDone,
                   nProducers, store>>

\* a constrained manager method called in a phase its constraint does not allow
Rejected(op) ==
    /\ last' = Outcome(op, "", 0, NoInput, <<>>, FALSE, Raise("LifeCycleError", <<>>, store))
    /\ UNCHANGED <<phase, managerConstraints, pipelines, heap, handles, constrained,
                   resources, postSetupDone, nProducers, store>>

\* what ValuesManager.register_value_producer changes: the registry, the
\* pipeline, the resources, the constrained calls, and the pipeline it returns
ProducerUpdate(name, input) ==
    LET l    == Lookup(pipelines, heap, name)
        h2   == [l.heap EXCEPT ![l.obj] =
                    ConfigurePipeline(@, name, input.source, input.combiner, input.post)]
        deps == ConvertDependencies(input.source, h2, Requires(input.source))
    IN [pipelines   |-> l.pipelines,
        heap        |-> h2,
        resources   |-> resources \cup {Resource("value_source", name, input.source, deps)},
        constrained |-> constrained \cup {l.obj},
        handles     |-> handles \cup {<<name, l.obj, TRUE>>},
        nProducers  |-> [nProducers EXCEPT ![name] = @ + 1],
        obj         |-> l.obj]

\* ValuesManager.register_value_producer, reached through the interface method
\* op that was given the arguments given and passes on the arguments input
RegisterProducerAs(op, name, given, input) ==
    /\ phase # "initialization"
    /\ IF ~Allowed("register_value_producer", phase, managerConstraints)
       THEN Rejected(op)
       ELSE /\ RegsDone < MaxRegs
            /\ LET u == ProducerUpdate(name, input)
               IN /\ pipelines' = u.pipelines
                  /\ heap' = u.heap
                  /\ resources' = u.resources
                  /\ constrained' = u.constrained
                  /\ handles' = u.handles
                  /\ nProducers' = u.nProducers
                  /\ last' = Outcome(op, name, u.obj, given, <<>>, FALSE, Ok)
            /\ UNCHANGED <<phase, managerConstraints, postSetupDone, store>>

\* ValuesInterface.register_value_producer: hands its arguments to the manager
RegisterValueProducer(name, input) ==
    /\ UNCHANGED aside
    /\ RegisterProducerAs("register_value_producer", name, input, input)

\* register_rate_producer with the post-processor left out
RateProducerInput_without_rescale(source) ==
    [source |-> source, combiner |-> "replace_combiner", post |-> "None"]

\* the arguments ValuesInterface.register_rate_producer calls
\* register_value_producer with: source, preferred_post_processor =
\* rescale_post_processor and, by default, preferred_combiner = replace_combiner
RateProducerInput(source) ==
    [source |-> source, combiner |-> "replace_combiner", post |-> "rescale_post_processor"]

\* ValuesInterface.register_rate_producer
RegisterRateProducer(name, source) ==
    /\ UNCHANGED aside
    /\ RegisterProducerAs("register_rate_producer", name, [NoInput EXCEPT !.source = source],
                          RateProducerInput(source))

\* a register_value_modifier that looks the pipeline up and appends the modifier
\* before it resolves the modifier's name
RegisterValueModifier_append_first(name, modifier) ==
    /\ UNCHANGED aside
    /\ phase # "initialization"
    /\ LET input == [NoInput EXCEPT !.source = modifier] IN
       IF ~Allowed("register_value_modifier", phase, managerConstraints)
       THEN Rejected("register_value_modifier")
       ELSE /\ RegsDone < MaxRegs
            /\ LET mn   == GetModifierName(modifier, heap)
                   l    == Lookup(pipelines, heap, name)
                   h2   == [l.heap EXCEPT ![l.obj].mutators = Append(@, modifier)]
                   id   == ModifierResourceId(name, h2[l.obj].mutators, mn.name)
                   deps == ConvertDependencies(modifier, h2, Requires(modifier))
               IN /\ pipelines' = l.pipelines
                  /\ heap' = h2
                  /\ IF mn.exc # ""
                     THEN /\ resources' = resources
                          /\ last' = Outcome("register_value_modifier", name, 0, input, <<>>, FALSE,
                                             Raise(mn.exc, <<>>, store))
                     ELSE /\ resources' = resources \cup {Resource("value_modifier", id, modifier, deps)}
                          /\ last' = Outcome("register_value_modifier", name, l.obj, input, <<>>,
                                             FALSE, Ok)
            /\ UNCHANGED <<phase, managerConstraints, handles, constrained, postSetupDone,
                           nProducers, store>>

\* ValuesManager.register_value_modifier
RegisterValueModifier(name, modifier) ==
    /\ UNCHANGED aside
    /\ phase # "initialization"
    /\ LET input == [NoInput EXCEPT !.source = modifier] IN
       IF ~Allowed("register_value_modifier", phase, managerConstraints)
       THEN Rejected("register_value_modifier")
       ELSE LET mn == GetModifierName(modifier, heap) IN
            IF mn.exc # ""
            THEN /\ last' = Outcome("register_value_modifier", name, 0, input, <<>>, FALSE,
                                    Raise(mn.exc, <<>>, store))
                 /\ UNCHANGED <<phase, managerConstraints, pipelines, heap, handles, constrained,
                                resources, postSetupDone, nProducers, store>>
            ELSE /\ RegsDone < MaxRegs
                 /\ LET l    == Lookup(pipelines, heap, name)
                        h2   == [l.heap EXCEPT ![l.obj].mutators = Append(@, modifier)]
                        id   == ModifierResourceId(name, h2[l.obj].mutators, mn.name)
                        deps == ConvertDependencies(modifier, h2, Requires(modifier))
                    IN /\ pipelines' = l.pipelines
                       /\ heap' = h2
                       /\ resources' = resources \cup {Resource("value_modifier", id, modifier, deps)}
                       /\ last' = Outcome("register_value_modifier", name, l.obj, input, <<>>, FALSE, Ok)
                 /\ UNCHANGED <<phase, managerConstraints, handles, constrained, postSetupDone,
                                nProducers, store>>

\* ValuesManager.get_value
GetValue(name) ==
    /\ UNCHANGED aside
    /\ phase # "initialization"
    /\ IF ~Allowed("get_value", phase, managerConstraints)
       THEN Rejected("get_value")
       ELSE /\ LET l == Lookup(pipelines, heap, name)
               IN /\ pipelines' = l.pipelines
                  /\ heap' = l.heap
                  /\ handles' = handles \cup {<<name, l.obj, l.heap[l.obj].configured>>}
                  /\ last' = Outcome("get_value", name, l.obj, NoInput, <<>>, FALSE, Ok)
            /\ UNCHANGED <<phase, managerConstraints, constrained, resources, postSetupDone,
                           nProducers, store>>

\* ValuesManager.on_post_setup, the listener of the post_setup event
OnPostSetup ==
    /\ UNCHANGED aside
    /\ phase = "post_setup"
    /\ ~postSetupDone
    /\ LET r == PostSetupLoop(pipelines, heap, 1, resources)
       IN /\ resources' = r.resources
          /\ last' = Outcome("on_post_setup", "", 0, NoInput, <<>>, FALSE,
                             Raise(r.exc, <<>>, store))
    /\ postSetupDone' = TRUE
    /\ UNCHANGED <<phase, managerConstraints, pipelines, heap, handles, constrained,
                   nProducers, store>>

\* Pipeline.__call__ on a pipeline some component holds
Call(h, args, skip) ==
    /\ UNCHANGED aside
    /\ Len(store) <= MaxShared
    /\ LET env == [heap |-> heap, constrained |-> constrained, phase |-> phase]
           r   == Pipeline__call__(h[2], args, skip, env, store, MaxDepth)
       IN /\ store' = r.store
          /\ last' = Outcome("call", h[1], h[2], NoInput, args, skip, r)
    /\ UNCHANGED <<phase, managerConstraints, pipelines, heap, handles, constrained,
                   resources, postSetupDone, nProducers>>

\* the simulation's lifecycle: the phase that follows
NextPhases(ph) ==
    CASE ph = "setup"               -> {"post_setup"}
      [] ph = "post_setup"          -> {"population_creation"}
      [] ph = "population_creation" -> {"time_step"}
      [] ph = "time_step"           -> {"simulation_end"}
      [] ph = "simulation_end"      -> {"report"}
      [] OTHER                      -> {}

Advance ==
    /\ UNCHANGED aside
    /\ phase = "post_setup" => postSetupDone
    /\ \E ph \in NextPhases(phase) :
          /\ phase' = ph
          /\ last' = [Outcome("advance", "", 0, NoInput, <<>>, FALSE, Ok) EXCEPT !.phase = ph]
    /\ UNCHANGED <<managerConstraints, pipelines, heap, handles, constrained, resources,
                   postSetupDone, nProducers, store>>

Next ==
    \/ ManagerSetup
    \/ \E c \in ProducerCalls : RegisterValueProducer(c[1], c[2])
    \/ \E c \in RateProducerCalls : RegisterRateProducer(c[1], c[2])
    \/ \E c \in ModifierCalls : RegisterValueModifier(c[1], c[2])
    \/ \E name \in Names : GetValue(name)
    \/ OnPostSetup
    \/ \E h \in handles : Call(h, Arg1, FALSE)
    \/ Advance

Spec == Init /\ [][Next]_vars

-----------------------------------------------------------------------------
(* Pipeline._call on its own: a Pipeline object whose fields are drawn from     *)
(* bounded sets (object 1), called during the time steps.  Object 2 is a        *)
(* configured pipeline, m1(idx, s_val(idx)), that object 1 may use as its       *)
(* source or as a mutator.                                                      *)

RECURSIVE SeqsUpTo(_, _)
SeqsUpTo(S, n) ==
    IF n = 0 THEN {<<>>}
    ELSE LET shorter == SeqsUpTo(S, n - 1) IN
         shorter \cup { Append(q, x) : q \in shorter, x \in S }

InnerPipeline ==
    [ConfigurePipeline(NewPipeline, "q", Fn("s_val"), "replace_combiner", "None")
        EXCEPT !.mutators = <<Fn("m1")>>]

DrawnPipelines ==
    { [name |-> "p", source |-> src, mutators |-> ms, combiner |-> cmb,
       post_processor |-> pp, manager |-> TRUE, configured |-> cfg] :
         src \in {NoneC, Fn("s_val"), Fn("s_list"), Fn("s_seed"), Fn("s_shared"), Fn("s_set"), Pipe(2)},
         ms \in SeqsUpTo({Fn("m1"), Fn("m2"), Pipe(2)}, MaxMutators),
         cmb \in {"replace_combiner", "list_combiner", "set_combiner"},
         pp \in {"None", "rescale_post_processor"},
         cfg \in BOOLEAN }

InitCall ==
    /\ AsideIdle
    /\ phase = "time_step"
    /\ managerConstraints = SetupConstraints
    /\ pipelines = [n \in Names |-> IF n = "p" THEN 1 ELSE 2]
    /\ \E pl \in DrawnPipelines : heap = <<pl, InnerPipeline>>
    /\ handles = {<<"p", 1, TRUE>>}
    /\ constrained = {}
    /\ resources = {}
    /\ postSetupDone = TRUE
    /\ nProducers = [n \in Names |-> 0]
    /\ store = <<>>
    /\ last = Outcome("init", "", 0, NoInput, <<>>, FALSE, Ok)

NextCall == \E h \in handles, args \in Args, skip \in BOOLEAN : Call(h, args, skip)

SpecCall == InitCall /\ [][NextCall]_vars

-----------------------------------------------------------------------------
(* _get_modifier_name on its own: one call on a modifier whose attributes are  *)
(* drawn from every combination hasattr can report.                            *)

DrawnAttrs ==
    { [hasName |-> hn, name |-> "table", hasSelf |-> hs, ownerHasName |-> ohn,
       ownerName |-> "foo", ownerClass |-> oc, hasDunderName |-> hd,
       dunderName |-> dn, hasCall |-> hc, class |-> "Anon"] :
         hn \in BOOLEAN, hs \in BOOLEAN, ohn \in BOOLEAN, oc \in {"Foo", "Comp"},
         hd \in BOOLEAN, dn \in {"bar", "baz"}, hc \in BOOLEAN }

InitNames ==
    /\ ValuesIdle
    /\ machine = NewMachine
    /\ results = NewResults
    /\ \E a \in DrawnAttrs : probe = [fn |-> "_get_modifier_name", done |-> FALSE, arg |-> a]

GetModifierNameCall ==
    /\ probe.fn = "_get_modifier_name"
    /\ ~probe.done
    /\ probe' = [fn |-> probe.fn, done |-> TRUE, arg |-> probe.arg, out |-> ResolveName(probe.arg)]
    /\ UNCHANGED <<phase, managerConstraints, pipelines, heap, handles, constrained,
                   resources, postSetupDone, nProducers, store, last, machine, results>>

SpecNames == InitNames /\ [][GetModifierNameCall]_vars

-----------------------------------------------------------------------------
(* _convert_dependencies on its own: one call with a function, a configured    *)
(* Pipeline (object 1, named q) or a Pipeline without producer (object 2) and  *)
(* drawn requires_columns, requires_values and requires_streams.               *)

DrawnRequires ==
    { [columns |-> c, values |-> v, streams |-> t] :
         c \in SeqsUpTo({"age", "sex"}, MaxRequires),
         v \in SeqsUpTo({"q"}, MaxRequires),
         t \in SeqsUpTo({"rand"}, MaxRequires) }

InitDeps ==
    /\ phase = "setup"
    /\ managerConstraints = SetupConstraints
    /\ pipelines = [n \in Names |-> IF n = "q" THEN 1 ELSE 2]
    /\ heap = <<InnerPipeline, NewPipeline>>
    /\ handles = {}
    /\ constrained = {}
    /\ resources = {}
    /\ postSetupDone = FALSE
    /\ nProducers = [n \in Names |-> 0]
    /\ store = <<>>
    /\ last = Outcome("init", "", 0, NoInput, <<>>, FALSE, Ok)
    /\ machine = NewMachine
    /\ results = NewResults
    /\ \E f \in {Fn("m1"), Pipe(1), Pipe(2)}, rq \in DrawnRequires :
          probe = [fn |-> "_convert_dependencies", done |-> FALSE, func |-> f, requires |-> rq]

ConvertDependenciesCall ==
    /\ probe.fn = "_convert_dependencies"
    /\ ~probe.done
    /\ probe' = [fn |-> probe.fn, done |-> TRUE, func |-> probe.func, requires |-> probe.requires,
                 out |-> ConvertDependencies(probe.func, heap, probe.requires)]
    /\ UNCHANGED <<phase, managerConstraints, pipelines, heap, handles, constrained,
                   resources, postSetupDone, nProducers, store, last, machine, results>>

SpecDeps == InitDeps /\ [][ConvertDependenciesCall]_vars

-----------------------------------------------------------------------------
(* joint_value_post_processor on its own.  The numbers are exact fractions     *)
(* [num, den]; the marginal probabilities drawn are 0, 0.2, 0.5 and 1.         *)

One == [num |-> 1, den |-> 1]

\* x * y
Times(x, y) == [num |-> x.num * y.num, den |-> x.den * y.den]

\* x - y
Minus(x, y) == [num |-> x.num * y.den - y.num * x.den, den |-> x.den * y.den]

\* x and y are the same number
SameNumber(x, y) == x.num * y.den = y.num * x.den

Probabilities == { [num |-> k, den |-> 10] : k \in {0, 2, 5, 10} }

\* for v in a: new_value = (1 - v); product = product * new_value
RECURSIVE JointProduct_without_complement(_, _, _)
JointProduct_without_complement(a, i, product) ==
    IF i > Len(a) THEN product
    ELSE JointProduct_without_complement(a, i + 1, Times(product, a[i]))

\* for v in a: new_value = (1 - v); product = product * new_value
RECURSIVE JointProduct(_, _, _)
JointProduct(a, i, product) ==
    IF i > Len(a) THEN product
    ELSE JointProduct(a, i + 1, Times(product, Minus(One, a[i])))

\* joint_value_post_processor(a, _)
joint_value_post_processor(a, step) ==
    IF Len(a) = 1 THEN a[1]
    ELSE Minus(One, JointProduct(a, 1, One))

InitJoint ==
    /\ ValuesIdle
    /\ machine = NewMachine
    /\ results = NewResults
    /\ \E a \in SeqsUpTo(Probabilities, MaxJoint), step \in {1, 2} :
          probe = [fn |-> "joint_value_post_processor", done |-> FALSE, a |-> a, step |-> step]

JointValuePostProcessorCall ==
    /\ probe.fn = "joint_value_post_processor"
    /\ ~probe.done
    /\ probe' = [fn |-> probe.fn, done |-> TRUE, a |-> probe.a, step |-> probe.step,
                 out |-> joint_value_post_processor(probe.a, probe.step)]
    /\ UNCHANGED <<phase, managerConstraints, pipelines, heap, handles, constrained,
                   resources, postSetupDone, nProducers, store, last, machine, results>>

SpecJoint == InitJoint /\ [][JointValuePostProcessorCall]_vars

-----------------------------------------------------------------------------
(* The results system: ResultsInterface in front of ResultsManager.  The key   *)
(* of a result is its measure together with the group ("50-55", "M").          *)

\* ResultsManager.register_results_producer(*args, **kwargs): the body is `...`,
\* the arguments are dropped and the manager stores nothing
register_results_producer(totals, args) == totals

\* what the manager holds for a key; a key it holds nothing for counts as 0
StoredTotal(m) == IF m \in DOMAIN results.totals THEN results.totals[m] ELSE 0

InitResults ==
    /\ ValuesIdle
    /\ probe = NoProbe
    /\ machine = NewMachine
    /\ results = NewResults

\* ResultsInterface.add_results_production_strategy(measure, when = when), with
\* the defaults pop_filter = '', aggregator = len and no grouping columns
AddResultsProductionStrategy(measure, when) ==
    /\ measure \notin { d.measure : d \in results.declared }
    /\ LET args == [measure |-> measure, pop_filter |-> "", aggregator |-> "len",
                    additional_grouping_columns |-> <<>>, excluded_grouping_columns |-> <<>>,
                    when |-> when]
       IN results' = [results EXCEPT !.totals = register_results_producer(@, args),
                                     !.declared = @ \cup {args}]
    /\ UNCHANGED <<phase, managerConstraints, pipelines, heap, handles, constrained,
                   resources, postSetupDone, nProducers, store, last, probe, machine>>

\* the event when of one time step: the aggregator of every measure declared
\* for it yields a count for the group (yield[m]); the ResultsManager listens to
\* no event and adds nothing
ResultsEvent(when, yield) ==
    /\ results.events < MaxEvents
    /\ \E d \in results.declared : d.when = when
    /\ results' = [results EXCEPT
                     !.events = @ + 1,
                     !.produced = [m \in Measures |->
                                     IF \E d \in results.declared : d.measure = m /\ d.when = when
                                     THEN Append(@[m], yield[m]) ELSE @[m]]]
    /\ UNCHANGED <<phase, managerConstraints, pipelines, heap, handles, constrained,
                   resources, postSetupDone, nProducers, store, last, probe, machine>>

NextResults ==
    \/ \E m \in Measures, when \in {"collect_metrics", "time_step"} :
          AddResultsProductionStrategy(m, when)
    \/ \E when \in {"collect_metrics", "time_step"}, yield \in [Measures -> {3, 5}] :
          ResultsEvent(when, yield)

SpecResults == InitResults /\ [][NextResults]_vars

-----------------------------------------------------------------------------
(* The state machine scaffold: a Machine, the State objects add_state appends  *)
(* to Machine._states, and the initial proportions the states compute in       *)
(* their setup.  A state that was not set up has no attribute                  *)
(* initial_proportion (set_up is FALSE); a proportion is the fraction the      *)
(* lookup table built in setup returns for every simulant.                     *)

\* State.get_initial_proportion: 1 / len(self._model._states)
get_initial_proportion(states) == [num |-> 1, den |-> Len(states)]

InitMachine ==
    /\ ValuesIdle
    /\ probe = NoProbe
    /\ results = NewResults
    /\ machine = NewMachine

\* Machine.add_state(state_name)
AddState ==
    /\ Len(machine.states) < MaxStates
    /\ machine' = [machine EXCEPT !.states =
                      Append(@, [short_name |-> "s" \o ToString(Len(@) + 1), set_up |-> FALSE,
                                 initial_proportion |-> One])]
    /\ UNCHANGED <<phase, managerConstraints, pipelines, heap, handles, constrained,
                   resources, postSetupDone, nProducers, store, last, probe, results>>

\* State.setup(builder) of the i-th state of the machine
StateSetup(i) ==
    /\ ~machine.states[i].set_up
    /\ machine' = [machine EXCEPT !.states[i].set_up = TRUE,
                                  !.states[i].initial_proportion = get_initial_proportion(machine.states)]
    /\ UNCHANGED <<phase, managerConstraints, pipelines, heap, handles, constrained,
                   resources, postSetupDone, nProducers, store, last, probe, results>>

\* Machine.on_initialize_simulants(pop_data): the weights handed to
\* randomness.choice.  zip(*[]) cannot be unpacked into two names, and a state
\* that was not set up has no initial_proportion.
OnInitializeSimulants ==
    /\ machine' =
          IF machine.states = <<>>
          THEN [machine EXCEPT !.ran = TRUE, !.exc = "ValueError", !.weights = <<>>]
          ELSE IF \E i \in 1..Len(machine.states) : ~machine.states[i].set_up
          THEN [machine EXCEPT !.ran = TRUE, !.exc = "AttributeError", !.weights = <<>>]
          ELSE [machine EXCEPT !.ran = TRUE, !.exc = "",
                               !.weights = [i \in 1..Len(machine.states) |->
                                              machine.states[i].initial_proportion]]
    /\ UNCHANGED <<phase, managerConstraints, pipelines, heap, handles, constrained,
                   resources, postSetupDone, nProducers, store, last, probe, results>>

NextMachine ==
    \/ AddState
    \/ \E i \in 1..Len(machine.states) : StateSetup(i)
    \/ OnInitializeSimulants

SpecMachine == InitMachine /\ [][NextMachine]_vars

-----------------------------------------------------------------------------
(* Properties *)

Front(q) == SubSeq(q, 1, Len(q) - 1)
LastOf(q) == q[Len(q)]

Env == [heap |-> heap, constrained |-> constrained, phase |-> phase]

\* what calling the callable c with the positional arguments pos gives, the shared
\* list holding st
Apply(c, pos, st) == InvokeCallable(c, pos, Env, st, MaxDepth)

\* the pipeline object the last operation was about
LastPipe == heap[last.obj]

\* m_n(args, ... m_1(args, s(args)) ...)
RECURSIVE Nested(_, _, _)
Nested(src, mutators, pos) ==
    IF mutators = <<>> THEN Apply(src, pos, store).value
    ELSE Apply(LastOf(mutators), pos \o <<Nested(src, Front(mutators), pos)>>, store).value

\* the invocations of s, m_1, ..., m_n, each m_i with the previous stage's value as
\* its last positional argument
RECURSIVE NestedLog(_, _, _)
NestedLog(src, mutators, pos) ==
    IF mutators = <<>> THEN Apply(src, pos, store).log
    ELSE NestedLog(src, Front(mutators), pos)
           \o Apply(LastOf(mutators), pos \o <<Nested(src, Front(mutators), pos)>>, store).log

ReplaceCall ==
    /\ last.op = "call"
    /\ LastPipe.configured
    /\ LastPipe.source # NoneC
    /\ LastPipe.combiner = "replace_combiner"
    /\ LastPipe.post_processor = "None"

\* C1: a configured pipeline with a source, replace_combiner and no post-processor
\* returns m_n(args, ... m_1(args, s(args)) ...): the source and then every mutator
\* is invoked exactly once, in registration order, each mutator with the previous
\* stage's value as its extra last positional argument.
C1_ReplaceFold ==
    ReplaceCall =>
        /\ last.exc = ""
        /\ last.value = Nested(LastPipe.source, LastPipe.mutators, last.args)
        /\ last.log = NestedLog(LastPipe.source, LastPipe.mutators, last.args)

C1_Witness ==
    /\ ReplaceCall
    /\ LastPipe.source = Fn("s_val")
    /\ LastPipe.mutators = <<Fn("m2"), Fn("m1")>>
    /\ last.value = Obj("m1", last.args \o <<Obj("m2", last.args \o <<Obj("s_val", last.args)>>)>>)

\* [m_1(args), ..., m_n(args)]
RECURSIVE Outputs(_, _, _)
Outputs(mutators, pos, st) ==
    IF mutators = <<>> THEN <<>>
    ELSE Append(Outputs(Front(mutators), pos, st), Apply(LastOf(mutators), pos, st).value)

ListCall ==
    /\ last.op = "call"
    /\ LastPipe.configured
    /\ LastPipe.source # NoneC
    /\ LastPipe.combiner = "list_combiner"
    /\ LastPipe.post_processor = "None"
    /\ last.exc = ""

\* C2 as claimed: with list_combiner and no post-processor the returned value is
\* exactly the list [m_1(args), ..., m_n(args)], whatever list the source returned.
C2_OnlyMutatorOutputs ==
    ListCall =>
        /\ last.value.kind = "list"
        /\ last.value.elems = Outputs(LastPipe.mutators, last.args, last.pre)

\* C2 as amended: with list_combiner and no post-processor the returned value is
\* the list object the source returned, holding the elements it held when the
\* source returned it followed by m_1(args), ..., m_n(args) in registration order
\* (a source value that is no list is returned as it is, there being no mutator).
C2_SourceListThenOutputs ==
    ListCall =>
        LET sv == Apply(LastPipe.source, last.args, last.pre).value IN
        IF sv.kind = "list"
        THEN last.value = ListVal(sv.elems \o Outputs(LastPipe.mutators, last.args, last.pre), sv.ref)
        ELSE LastPipe.mutators = <<>> /\ last.value = sv

C2_Witness ==
    /\ ListCall
    /\ LastPipe.source = Fn("s_seed")
    /\ LastPipe.mutators = <<Fn("m2"), Fn("m1")>>
    /\ last.value.elems = <<Obj("seed", <<>>), Obj("m2", last.args), Obj("m1", last.args)>>

\* C3: a call returns a value only when the pipeline has a source and is
\* configured; without a source, and with a source but configured = false, it
\* fails with DynamicValueError raised by that pipeline, and nothing (source,
\* mutator, post-processor, step-size accessor) has been invoked.
C3_CallableOnlyWhenConfigured ==
    last.op = "call" =>
        /\ last.exc = "" => (LastPipe.source # NoneC /\ LastPipe.configured)
        /\ (LastPipe.source = NoneC \/ ~LastPipe.configured) =>
              /\ last.exc = "DynamicValueError"
              /\ last.by = last.obj
              /\ last.log = <<>>

C3_Witness ==
    /\ last.op = "call"
    /\ LastPipe.source = Fn("s_val")
    /\ ~LastPipe.configured
    /\ LastPipe.mutators # <<>>
    /\ LastPipe.post_processor # "None"
    /\ last.exc = "DynamicValueError"
    /\ last.log = <<>>

-----------------------------------------------------------------------------
(* The registry and the dependency declaration *)

Registered(n) == nProducers[n] > 0

\* the 'value' resources declared for the name n
ValueResources(n) == { r \in resources : r.kind = "value" /\ r.id = n }

\* the pipeline lookups are consistent: every pipeline the manager returned for a
\* name is the object the registry holds for that name
SameObject == \A h \in handles : pipelines[h[1]] = h[2]

\* C4: get_value of a name nothing was registered for adds an empty unconfigured
\* pipeline; calling a pipeline without producer raises DynamicValueError; once a
\* producer is registered the object returned by the earlier get_value, by
\* register_value_producer and by later get_value calls is one object, and calling
\* it in a phase that permits calls gets past the pipeline's own checks and
\* invokes the source.
C4_LateProducerSameObject ==
    /\ SameObject
    /\ (last.op = "get_value" /\ last.exc = "" /\ ~Registered(last.name)
          /\ LastPipe.mutators = <<>>) =>
            (pipelines[last.name] = last.obj /\ LastPipe = NewPipeline)
    /\ (last.op = "call" /\ ~Registered(last.name)) =>
            (last.exc = "DynamicValueError" /\ last.by = last.obj /\ last.log = <<>>)
    /\ (last.op = "call" /\ Registered(last.name) /\ last.phase \notin RestrictDuring) =>
            /\ last.by # last.obj
            /\ LastPipe.source.k = "fn" => (last.log # <<>> /\ last.log[1].fn = LastPipe.source.fn)

C4_Witness ==
    /\ last.op = "call"
    /\ <<last.name, last.obj, FALSE>> \in handles
    /\ <<last.name, last.obj, TRUE>> \in handles
    /\ last.exc = ""
    /\ last.value = Obj("s_val", last.args)

\* C5: a second register_value_producer for a name does not fail, and leaves the
\* pipeline with the source, combiner and post-processor of that call; the
\* registry holds one pipeline object per name.
C5_LastProducerWins ==
    /\ (last.op = "register_value_producer" /\ last.phase = "setup") =>
          /\ last.exc = ""
          /\ pipelines[last.name] = last.obj
          /\ LastPipe.source = last.input.source
          /\ LastPipe.combiner = last.input.combiner
          /\ LastPipe.post_processor = last.input.post
          /\ LastPipe.name = last.name
          /\ LastPipe.configured
    /\ \A o \in DOMAIN heap : Cardinality({ n \in Names : pipelines[n] = o }) = 1

C5_Witness ==
    /\ last.op = "register_value_producer"
    /\ last.exc = ""
    /\ nProducers[last.name] = 2
    /\ last.input.combiner = "list_combiner"
    /\ \E r \in resources : /\ r.kind = "value_source"
                            /\ r.id = last.name
                            /\ r.producer = Fn("s_val")
    /\ LastPipe.source = Fn("s_seed")
    /\ LastPipe.post_processor = "joint_value_post_processor"

\* value_modifier.<name>.<i>.<modifier-name> for the mutators from position k on,
\* i counting from 0
RECURSIVE ExpectedModifierDeps(_, _, _)
ExpectedModifierDeps(n, mutators, k) ==
    IF k > Len(mutators) THEN <<>>
    ELSE << "value_modifier." \o n \o "." \o ToString(k - 1) \o "."
             \o GetModifierName(mutators[k], heap).name >>
           \o ExpectedModifierDeps(n, mutators, k + 1)

\* C6: on_post_setup registers, for every pipeline in the registry (configured or
\* not), exactly one 'value' resource with the pipeline's name as id, whose
\* dependency list is value_source.<name> if and only if the pipeline has a
\* source, followed by one value_modifier.<name>.<i>.<modifier-name> per mutator
\* in registration order; names without registry entry get no 'value' resource.
C6_ValueResourcePerPipeline ==
    last.op = "on_post_setup" =>
        /\ last.exc = ""
        /\ \A n \in Names :
              IF pipelines[n] = 0 THEN ValueResources(n) = {}
              ELSE LET pipe == heap[pipelines[n]] IN
                   /\ Cardinality(ValueResources(n)) = 1
                   /\ \A r \in ValueResources(n) :
                         r.deps = (IF pipe.source # NoneC THEN << "value_source." \o n >> ELSE <<>>)
                                    \o ExpectedModifierDeps(n, pipe.mutators, 1)

C6_Witness ==
    /\ last.op = "on_post_setup"
    /\ pipelines["p"] # 0 /\ pipelines["q"] # 0
    /\ heap[pipelines["p"]].source # NoneC
    /\ Len(heap[pipelines["p"]].mutators) = 2
    /\ heap[pipelines["p"]].mutators[1] # heap[pipelines["p"]].mutators[2]
    /\ heap[pipelines["q"]].source = NoneC
    /\ \E r \in ValueResources("p") : Len(r.deps) = 3
    /\ \E r \in ValueResources("q") : r.deps = <<>>

\* C7 as claimed: after post-setup every value_modifier dependency of a 'value'
\* resource is the id of a 'value_modifier' resource that register_value_modifier
\* added for the same mutator.
C7_ModifierDependenciesResolve ==
    postSetupDone =>
        \A n \in Names : \A r \in ValueResources(n) :
            LET pipe   == heap[pipelines[n]]
                offset == IF pipe.source # NoneC THEN 1 ELSE 0
            IN \A k \in 1..Len(pipe.mutators) :
                  \E m \in resources :
                     /\ m.kind = "value_modifier"
                     /\ "value_modifier." \o m.id = r.deps[offset + k]
                     /\ m.producer = pipe.mutators[k]

\* C8: a pipeline with mutators and no producer does not make on_post_setup fail;
\* it stays unconfigured and without source, and its 'value' resource is
\* registered with the modifier dependencies only.
C8_UnsourcedPipelineTolerated ==
    last.op = "on_post_setup" =>
        /\ last.exc = ""
        /\ \A n \in Names :
              (pipelines[n] # 0 /\ ~Registered(n) /\ heap[pipelines[n]].mutators # <<>>) =>
                 LET pipe == heap[pipelines[n]] IN
                 /\ ~pipe.configured
                 /\ pipe.source = NoneC
                 /\ \E r \in ValueResources(n) :
                       /\ Len(r.deps) = Len(pipe.mutators)
                       /\ r.deps = ExpectedModifierDeps(n, pipe.mutators, 1)
                       /\ \A i \in 1..Len(r.deps) : r.deps[i] # "value_source." \o n

C8_Witness ==
    /\ last.op = "on_post_setup"
    /\ last.exc = ""
    /\ pipelines["p"] # 0
    /\ ~Registered("p")
    /\ Len(heap[pipelines["p"]].mutators) = 2
    /\ \E r \in ValueResources("p") : Len(r.deps) = 2

\* C9 as claimed: outside the setup phase no step adds an entry to the registry
\* or changes a field of a pipeline.
C9_RegistryFrozenOutsideSetup ==
    [][phase # "setup" => (pipelines' = pipelines /\ heap' = heap)]_vars

\* C10: during initialization, setup and post_setup no pipeline call returns a
\* value: a pipeline with a registered producer is rejected by its lifecycle
\* constraint before its source is invoked, one without producer fails with
\* DynamicValueError.
C10_NoCallBeforePopulation ==
    (last.op = "call" /\ last.phase \in {"initialization", "setup", "post_setup"}) =>
        /\ last.exc # ""
        /\ last.log = <<>>
        /\ last.by = last.obj
        /\ Registered(last.name) => last.exc = "LifeCycleError"
        /\ ~Registered(last.name) => last.exc = "DynamicValueError"

C10_Witness ==
    /\ last.op = "call"
    /\ last.phase = "post_setup"
    /\ postSetupDone
    /\ Registered(last.name)
    /\ LastPipe.source = Fn("s_val")
    /\ last.exc = "LifeCycleError"
-----------------------------------------------------------------------------
\* the call of _get_modifier_name under examination has returned or raised
NameResolved == probe.fn = "_get_modifier_name" /\ probe.done

\* C11: _get_modifier_name resolves by priority.  A modifier with a name
\* attribute resolves to that name; otherwise a bound method resolves to
\* <owner's name>.<method name>, with the owner's class name when the owner has
\* no name; otherwise a plain function resolves to its own name; a modifier
\* with no name, no owner, no function name and no __call__ raises ValueError.
C11_NamePriority ==
    NameResolved =>
        LET a == probe.arg
            r == probe.out
        IN /\ a.hasName => r = [exc |-> "", name |-> a.name]
           /\ (~a.hasName /\ a.hasSelf /\ a.hasDunderName /\ a.ownerHasName)
                 => r = [exc |-> "", name |-> a.ownerName \o "." \o a.dunderName]
           /\ (~a.hasName /\ a.hasSelf /\ a.hasDunderName /\ ~a.ownerHasName)
                 => r = [exc |-> "", name |-> a.ownerClass \o "." \o a.dunderName]
           /\ (~a.hasName /\ ~a.hasSelf /\ a.hasDunderName)
                 => r = [exc |-> "", name |-> a.dunderName]
           /\ (~a.hasName /\ ~a.hasSelf /\ ~a.hasDunderName /\ ~a.hasCall)
                 => r = [exc |-> "ValueError", name |-> ""]

\* the bound method bar of a component named foo resolved to "foo.bar"
C11_Witness ==
    /\ NameResolved
    /\ ~probe.arg.hasName /\ probe.arg.hasSelf /\ probe.arg.ownerHasName
    /\ probe.arg.dunderName = "bar"
    /\ probe.out = [exc |-> "", name |-> "foo.bar"]

-----------------------------------------------------------------------------
\* C12: registering as a modifier a callable object without name, __self__ and
\* __name__ during setup succeeds: nothing is raised, the object becomes the
\* last mutator of the pipeline and its resource is named
\* <value name>.<position>.<ClassName>.__call__.
C12_AnonymousCallableRegisters ==
    (last.op = "register_value_modifier" /\ last.phase = "setup" /\ last.input.source = Fn("anon"))
        => /\ last.exc = ""
           /\ LastOf(LastPipe.mutators) = Fn("anon")
           /\ \E r \in resources :
                 /\ r.kind = "value_modifier"
                 /\ r.producer = Fn("anon")
                 /\ r.id = ModifierResourceId(last.name, LastPipe.mutators,
                                              FnAttrs("anon").class \o ".__call__")

-----------------------------------------------------------------------------
\* the call of _convert_dependencies under examination has returned
DepsConverted == probe.fn = "_convert_dependencies" /\ probe.done

\* C13: for a Pipeline p as source or modifier _convert_dependencies returns
\* exactly [value.<p.name>], whatever requires_columns, requires_values and
\* requires_streams hold; otherwise it returns column.<c> for each required
\* column, then value.<v> for each required value, then stream.<s> for each
\* required stream, one entry per requirement and nothing else.
C13_DependenciesConverted ==
    DepsConverted =>
        LET f   == probe.func
            c   == probe.requires.columns
            v   == probe.requires.values
            t   == probe.requires.streams
            out == probe.out
        IN IF f.k = "pipe"
           THEN out = << "value." \o heap[f.obj].name >>
           ELSE /\ Len(out) = Len(c) + Len(v) + Len(t)
                /\ \A i \in 1..Len(c) : out[i] = "column." \o c[i]
                /\ \A i \in 1..Len(v) : out[Len(c) + i] = "value." \o v[i]
                /\ \A i \in 1..Len(t) : out[Len(c) + Len(v) + i] = "stream." \o t[i]

\* a Pipeline named q was given together with required columns, values and
\* streams, and value.q alone came back
C13_Witness ==
    /\ DepsConverted
    /\ probe.func = Pipe(1)
    /\ probe.requires.columns # <<>> /\ probe.requires.values # <<>> /\ probe.requires.streams # <<>>
    /\ probe.out = << "value.q" >>

-----------------------------------------------------------------------------
\* C14: register_rate_producer(name, source) leaves the registry, the pipeline,
\* the declared resources and everything else in exactly the state that
\* register_value_producer(name, source, preferred_combiner = replace_combiner,
\* preferred_post_processor = rescale_post_processor) would leave them in, and
\* returns the same pipeline.
C14_RateProducerIsValueProducer ==
    [][ (last'.op = "register_rate_producer" /\ last'.exc = "")
          => LET u == ProducerUpdate(last'.name,
                                     [source   |-> last'.input.source,
                                      combiner |-> "replace_combiner",
                                      post     |-> "rescale_post_processor"])
             IN /\ pipelines' = u.pipelines
                /\ heap' = u.heap
                /\ resources' = u.resources
                /\ constrained' = u.constrained
                /\ handles' = u.handles
                /\ nProducers' = u.nProducers
                /\ last'.obj = u.obj
                /\ UNCHANGED <<phase, managerConstraints, postSetupDone, store, aside>> ]_vars

\* a rate producer was registered for a name that had a modifier already: the
\* pipeline is configured with replace_combiner and rescale_post_processor
C14_Witness ==
    /\ last.op = "register_rate_producer"
    /\ last.exc = ""
    /\ LastPipe.source = Fn("s_val")
    /\ LastPipe.combiner = "replace_combiner"
    /\ LastPipe.post_processor = "rescale_post_processor"
    /\ LastPipe.configured
    /\ LastPipe.mutators # <<>>

-----------------------------------------------------------------------------
\* a call of a configured pipeline with a source that raised nothing
GoodCall ==
    /\ last.op = "call"
    /\ LastPipe.configured
    /\ LastPipe.source # NoneC
    /\ last.exc = ""

\* {m_1(args), ..., m_n(args)}
MemberOutputs(mutators, pos, st) ==
    LET outs == Outputs(mutators, pos, st) IN { outs[i] : i \in 1..Len(outs) }

\* the value the combiner has built when the last mutator has run
CombinedValue ==
    LET sv == Apply(LastPipe.source, last.args, last.pre).value IN
    CASE LastPipe.combiner = "replace_combiner" ->
           Nested(LastPipe.source, LastPipe.mutators, last.args)
      [] LastPipe.combiner = "list_combiner" ->
           IF sv.kind = "list"
           THEN ListVal(sv.elems \o Outputs(LastPipe.mutators, last.args, last.pre), sv.ref)
           ELSE sv
      [] LastPipe.combiner = "set_combiner" ->
           IF sv.kind = "set"
           THEN SetVal(sv.members \cup MemberOutputs(LastPipe.mutators, last.args, last.pre))
           ELSE sv

\* the invocations of the step-size accessor and of post-processors in the log
FinishingCalls ==
    { i \in 1..Len(last.log) :
        last.log[i].fn \in {"step_size", "rescale_post_processor", "joint_value_post_processor"} }

\* C15: a call of a configured pipeline with a post-processor and
\* skip_post_processor = false reads the step size and invokes the post-processor
\* exactly once each, after the source and every mutator, on the combined value
\* and the step size, and returns the post-processor's result; with
\* skip_post_processor = true, or without post-processor, the call returns the
\* combined value and invokes neither the post-processor nor the step-size
\* accessor.
C15_PostProcessorOnceUnlessSkipped ==
    GoodCall =>
        LET n    == Len(last.log)
            step == Obj("step_size", <<>>)
        IN IF LastPipe.post_processor # "None" /\ ~last.skip
           THEN /\ n >= 2
                /\ FinishingCalls = {n - 1, n}
                /\ last.log[n - 1] = [fn |-> "step_size", pos |-> <<>>]
                /\ last.log[n] = [fn |-> LastPipe.post_processor, pos |-> <<CombinedValue, step>>]
                /\ last.value = Obj(LastPipe.post_processor, <<CombinedValue, step>>)
           ELSE /\ FinishingCalls = {}
                /\ last.value = CombinedValue

\* rescale_post_processor received m1(args, m2(args, s_val(args))) and the step size
C15_Witness ==
    /\ GoodCall
    /\ ~last.skip
    /\ LastPipe.post_processor = "rescale_post_processor"
    /\ LastPipe.mutators = <<Fn("m2"), Fn("m1")>>
    /\ LastPipe.source = Fn("s_val")
    /\ LastPipe.combiner = "replace_combiner"
    /\ last.value = Obj("rescale_post_processor",
                        << Obj("m1", last.args \o <<Obj("m2", last.args \o <<Obj("s_val", last.args)>>)>>),
                           Obj("step_size", <<>>) >>)

-----------------------------------------------------------------------------
\* the call of joint_value_post_processor under examination has returned
JointDone == probe.fn = "joint_value_post_processor" /\ probe.done

\* (1 - v_1) * ... * (1 - v_n)
RECURSIVE ComplementProduct(_)
ComplementProduct(a) ==
    IF a = <<>> THEN One ELSE Times(Minus(One, Head(a)), ComplementProduct(Tail(a)))

\* C16: joint_value_post_processor returns the sole element unchanged for a
\* list of length 1 and 1 minus the product of (1 - v_i) over all elements for
\* a list of length 2 or more, so that [0.2, 0.5] gives 0.6, whatever step
\* size it is given.
C16_JointValue ==
    JointDone =>
        /\ Len(probe.a) = 1 => probe.out = probe.a[1]
        /\ Len(probe.a) >= 2 => SameNumber(probe.out, Minus(One, ComplementProduct(probe.a)))
        /\ probe.a = << [num |-> 2, den |-> 10], [num |-> 5, den |-> 10] >>
              => SameNumber(probe.out, [num |-> 6, den |-> 10])

\* [0.2, 0.5] was combined into 0.6 with a step size of 2
C16_Witness ==
    /\ JointDone
    /\ probe.a = << [num |-> 2, den |-> 10], [num |-> 5, den |-> 10] >>
    /\ probe.step = 2
    /\ SameNumber(probe.out, [num |-> 6, den |-> 10])

-----------------------------------------------------------------------------
RECURSIVE SumOf(_)
SumOf(q) == IF q = <<>> THEN 0 ELSE Head(q) + SumOf(Tail(q))

\* C17: results accumulate additively per key.  Once a measure is declared
\* through the results interface, the running total stored for its key equals
\* the sum of the values produced for that key at the time steps so far (3 and
\* then 5 give 8), and a stored total is never overwritten or reset.
C17_TotalsAccumulate ==
    \A d \in results.declared :
        StoredTotal(d.measure) = SumOf(results.produced[d.measure])

-----------------------------------------------------------------------------
\* the mutator list the registry holds for a name in the registry pls and heap h
MutatorsOf(pls, h, n) == IF pls[n] = 0 THEN <<>> ELSE h[pls[n]].mutators

\* C18: the mutator list of a name is the sequence of its modifiers in the
\* order register_value_modifier was called.  Every successful
\* register_value_modifier appends its modifier to the list of its name; every
\* other step, a first or repeated producer registration included, leaves every
\* list as it was, and a producer registration leaves the pipeline with its own
\* combiner, the one the kept mutators are applied with from then on.
C18_MutatorsInRegistrationOrder ==
    [][ /\ \A n \in Names :
             MutatorsOf(pipelines', heap', n) =
                 IF last'.op = "register_value_modifier" /\ last'.exc = "" /\ last'.name = n
                 THEN Append(MutatorsOf(pipelines, heap, n), last'.input.source)
                 ELSE MutatorsOf(pipelines, heap, n)
        /\ (last'.op = "register_value_producer" /\ last'.exc = "")
             => heap'[pipelines'[last'.name]].combiner = last'.input.combiner ]_vars

\* the first producer of p was registered after two modifiers, which are kept
C18_Witness ==
    /\ last.op = "register_value_producer"
    /\ last.exc = ""
    /\ nProducers[last.name] = 1
    /\ last.input.combiner = "list_combiner"
    /\ LastPipe.combiner = "list_combiner"
    /\ LastPipe.mutators = <<Fn("m1"), Fn("m1")>>

-----------------------------------------------------------------------------
\* the pipeline objects the pipeline object o invokes as its source or a mutator
PipelinesIn(o) ==
    { c.obj : c \in { x \in {heap[o].source} \cup { heap[o].mutators[i] : i \in 1..Len(heap[o].mutators) } :
                        x.k = "pipe" } }

\* the pipeline objects whose source and mutators the last call executed
Executed == UNION { {o} \cup PipelinesIn(o) : o \in {last.obj} \cup PipelinesIn(last.obj) }

\* C19: the dependencies declared at post-setup are complete for the rest of
\* the run.  Whenever a pipeline call succeeds, on_post_setup has run, and every
\* pipeline the call executes has exactly one 'value' resource, whose
\* dependencies are value_source.<name> followed by one value_modifier
\* dependency for each mutator the pipeline holds at the call, in order.
C19_DeclarationComplete ==
    (last.op = "call" /\ last.exc = "") =>
        /\ postSetupDone
        /\ \A o \in Executed :
              LET n == KeyOf(pipelines, o) IN
              /\ heap[o].source # NoneC
              /\ Cardinality(ValueResources(n)) = 1
              /\ \A r \in ValueResources(n) :
                    /\ r.deps = << "value_source." \o n >> \o ExpectedModifierDeps(n, heap[o].mutators, 1)
                    /\ Len(r.deps) = 1 + Len(heap[o].mutators)

\* a pipeline whose mutator is the pipeline q was called with success during
\* the time steps
C19_Witness ==
    /\ last.op = "call"
    /\ last.exc = ""
    /\ phase = "time_step"
    /\ Len(LastPipe.mutators) = 1
    /\ LastPipe.mutators[1].k = "pipe"
    /\ Executed = {pipelines["p"], pipelines["q"]}

-----------------------------------------------------------------------------
\* x + y
Plus(x, y) == [num |-> x.num * y.den + y.num * x.den, den |-> x.den * y.den]

RECURSIVE Total(_)
Total(q) == IF q = <<>> THEN [num |-> 0, den |-> 1] ELSE Plus(Head(q), Total(Tail(q)))

\* C20: the default initial proportions of a machine are uniform.  Whenever
\* on_initialize_simulants has handed weights to the randomness stream, every
\* weight is 1/N with N the number of states of the machine, so the weights are
\* all equal and sum to 1, whatever order of add_state and State.setup calls
\* came before.
C20_UniformInitialProportions ==
    (machine.ran /\ machine.exc = "") =>
        /\ \A i \in 1..Len(machine.weights) :
              SameNumber(machine.weights[i], [num |-> 1, den |-> Len(machine.weights)])
        /\ SameNumber(Total(machine.weights), One)

-----------------------------------------------------------------------------
\* C21: repeated calls of one pipeline are independent.  With a source and
\* mutators that return the same object or value for the same arguments (the
\* source possibly the very same list object on every call), a call that
\* follows a successful call of the same pipeline with the same arguments
\* returns an equal value, for replace_combiner, list_combiner and
\* set_combiner alike: nothing produced in one call carries over into the next.
C21_RepeatedCallsIndependent ==
    [][ (/\ last.op = "call" /\ last.exc = ""
         /\ last'.op = "call"
         /\ last'.obj = last.obj /\ last'.args = last.args /\ last'.skip = last.skip)
          => (last'.exc = "" /\ last'.value = last.value) ]_vars

-----------------------------------------------------------------------------
\* a register_value_modifier whose modifier has no resolvable display name
NameFailure(l) ==
    /\ l.op = "register_value_modifier"
    /\ l.exc \in {"ValueError", "AttributeError"}

\* C22: a register_value_modifier call that fails because the modifier's
\* display name cannot be resolved changes nothing in the manager: no registry
\* entry is created for the target name, no mutator is appended to any
\* pipeline and no resource is declared.
C22_FailedModifierChangesNothing ==
    [][ NameFailure(last')
          => /\ pipelines' = pipelines
             /\ heap' = heap
             /\ resources' = resources
             /\ UNCHANGED <<handles, constrained, nProducers, managerConstraints, postSetupDone>> ]_vars

\* an object that is not callable was refused as a modifier of p with
\* ValueError, and the registry has no entry for p
C22_Witness ==
    /\ NameFailure(last)
    /\ last.exc = "ValueError"
    /\ last.input.source = Fn("junk")
    /\ last.name = "p"
    /\ pipelines["p"] = 0
    /\ resources = {}

-----------------------------------------------------------------------------
\* the resources register_value_producer and register_value_modifier declared
\* for a Pipeline object that was handed in as source or modifier
PipelineRegistrations ==
    { r \in resources : r.kind \in {"value_source", "value_modifier"} /\ r.producer.k = "pipe" }

\* C23: a Pipeline object taken from the registry and registered as the source
\* or a modifier of another pipeline is known by its registry key k: the
\* dependency declared for it is value.<k>, and as a modifier its resource is
\* named <value name>.<position>.<k>, also when the producer of the pipeline
\* is registered later in setup or not at all.
C23_PipelineKnownByRegistryKey ==
    \A r \in PipelineRegistrations :
        LET k == KeyOf(pipelines, r.producer.obj) IN
        /\ r.deps = << "value." \o k >>
        /\ r.kind = "value_modifier" =>
              \E n \in Names : \E i \in 1..Len(MutatorsOf(pipelines, heap, n)) :
                  r.id = n \o "." \o ToString(i) \o "." \o k

====
